---------------------------- MODULE Spec2Model ----------------------------
(***************************************************************************)
(* MVP rotation bot (src/bot.py): the persisted rotation record and the    *)
(* handlers that load it, change it and save it.                           *)
(*                                                                         *)
(* Every handler runs on one asyncio event loop and has no await between   *)
(* its load_data() and its save_data(), so load-compute-save is one step   *)
(* here.  The variable data is the content of DATA_FILE.  Indexes are the  *)
(* 0-based indexes of the Python lists; list[i] is written At(list, i).    *)
(***************************************************************************)
EXTENDS Integers, Sequences, FiniteSets, TLC

VARIABLES
    data,      \* the record stored in DATA_FILE (what load_data returns)
    prev,      \* history: data as the last handler loaded it
    lastOp,    \* history: the last handler, its arguments and what it computed
    tasks,     \* the handler tasks on the event loop, each with its position
    serial,    \* history: the handlers that ran so far, run one at a time
    file,      \* DATA_FILE: "missing", or how much of json.dump(data) is in it
    views,     \* the TitleConfirmView prompts sent so far
    message    \* the bot's newest "MVP Rotation" message in the officer channel

vars == <<data, prev, lastOp, tasks, serial, file, views, message>>

----------------------------------------------------------------------------
(* Bounds of the model *)

NumPlayers == 2      \* Spec: the handlers are given the discord ids 1..NumPlayers
MaxEntries == 2      \* Spec: entries over the three lists together
MaxAwards == 1       \* Spec: awards in one behaviour
RosterSize == 3      \* AwardSpec, DesignatedSpec: discord ids 1..RosterSize are added
RunAwards == 3       \* AwardSpec: awards in one behaviour
DesignatedRuns == 4  \* DesignatedSpec: awards in one behaviour
LifeAwards == 1      \* LifeSpec: awards in one behaviour
NumTasks == 2        \* ConcSpec: handler tasks dispatched in one behaviour
CallRuns == 2        \* CallSpec: log entries, and the owed and the titles of a player
MaxViews == 2        \* PromptSpec: award prompts sent in one behaviour
MaxPresses == 2      \* PromptSpec: button callbacks run of one prompt
PromptAwards == 2    \* PromptSpec: awards in one behaviour

Players == 1..NumPlayers
Roster == 1..RosterSize
GameNames == {"ann", "bob"}
Dates == {"11/05"}

\* AwardSpec, DesignatedSpec: the name players are added under, and the
\* (mvp_type, had_title) pairs of the awards of AwardSpec: every MVP type,
\* with and without title
RosterNames == {"ann"}
AwardInputs == {<<"EVENT", FALSE>>, <<"ROW", TRUE>>, <<"RANKING", FALSE>>}

\* PromptSpec: the mvp_type arguments of /award_mvp
PromptTypes == {"row", "OTHER"}

----------------------------------------------------------------------------
(* Program constants and Python list primitives *)

\* MVP_TYPES keys
MVP_TYPES == {"EVENT", "ROW", "RANKING"}

\* list[i], 0-based
At(list, i) == list[i + 1]

\* list.pop(i) leaves this list behind, 0 <= i < len(list)
Pop(list, i) == SubSeq(list, 1, i) \o SubSeq(list, i + 2, Len(list))

\* list.insert(i, x), i >= 0: an index past the end appends
Insert(list, i, x) ==
    LET j == IF i > Len(list) THEN Len(list) ELSE i
    IN  SubSeq(list, 1, j) \o <<x>> \o SubSeq(list, j + 1, Len(list))

\* mutant: the two entries change places and the owed values stay
SwapKeepOwed(list, i, j) ==
    [k \in 1..Len(list) |->
        IF k = i + 1 THEN [At(list, j) EXCEPT !.owed = At(list, i).owed]
        ELSE IF k = j + 1 THEN [At(list, i) EXCEPT !.owed = At(list, j).owed]
        ELSE list[k]]

\* rotation[i], rotation[j] = rotation[j], rotation[i]
Swap(list, i, j) ==
    [k \in 1..Len(list) |->
        IF k = i + 1 THEN At(list, j)
        ELSE IF k = j + 1 THEN At(list, i)
        ELSE list[k]]

\* str(discord_id), the key of data['stats']
str(discord_id) == ToString(discord_id)

\* the for/enumerate/break loops that look a discord_id up: the index of the
\* first entry with that id, -1 when there is none
RECURSIVE find_from(_, _, _)
find_from(list, id, i) ==
    IF i >= Len(list) THEN -1
    ELSE IF At(list, i).discord_id = id THEN i
    ELSE find_from(list, id, i + 1)

\* mutant: a lookup that takes the first entry when the id is not there
find_index_or_first(list, id) ==
    IF find_from(list, id, 0) = -1 /\ list # <<>> THEN 0
    ELSE find_from(list, id, 0)

find_index(list, id) == find_from(list, id, 0)

----------------------------------------------------------------------------
(* load_data: the record used when DATA_FILE does not exist *)

load_data_default ==
    [rotation |-> <<>>,
     inactive |-> <<>>,
     past_members |-> <<>>,
     logs |-> [events |-> <<>>, row |-> <<>>, ranking |-> <<>>],
     stats |-> <<>>]

\* mutant: no os.path.exists test, open raises when DATA_FILE does not exist
load_data_raises(f, d) ==
    IF f = "whole" THEN <<d>> ELSE <<>>

\* load_data(): the default record when DATA_FILE does not exist, the record
\* json.load reads from a complete file, and <<>> for the JSONDecodeError it
\* raises on an empty or a partly written one.  d is the record that
\* json.dump was given when DATA_FILE was last opened for writing.
load_data(f, d) ==
    IF f = "missing" THEN <<load_data_default>>
    ELSE IF f = "whole" THEN <<d>>
    ELSE <<>>

\* DATA_FILE when save_data has got as far as reached: "makedirs" (before
\* open), "opened" (open(DATA_FILE, 'w') has truncated the file), "dumping"
\* (json.dump has written a part), "closed" (the with block is left)
save_data(f, reached) ==
    IF reached = "makedirs" THEN f
    ELSE IF reached = "opened" THEN "empty"
    ELSE IF reached = "dumping" THEN "partial"
    ELSE "whole"

SavePoints == {"makedirs", "opened", "dumping", "closed"}

\* the replies of the handler paths that call save_data
SavingReplies == {"added", "updated", "awarded", "moved", "removed"}

----------------------------------------------------------------------------
(* get_next_index *)

RECURSIVE next_from(_, _)
next_from(rotation, i) ==
    IF i >= Len(rotation) THEN 0
    ELSE IF At(rotation, i).owed > 0 THEN i
    ELSE next_from(rotation, i + 1)

\* mutant: the first entry is always the next one
get_next_index_first(d) ==
    IF d.rotation = <<>> THEN -1 ELSE 0

get_next_index(d) ==
    IF d.rotation = <<>> THEN -1 ELSE next_from(d.rotation, 0)

----------------------------------------------------------------------------
(* The formatting functions.  Each returns text, the lines of the message  *)
(* with the fields shown in them, and data, the record the caller holds    *)
(* after the call: none of the functions assigns to data or to a member.   *)

\* the first entry of a log with the date, <<>> when there is none
first_with_date(log, date_str) ==
    LET found == {k \in 1..Len(log) : log[k].date = date_str}
    IN  IF found = {} THEN <<>>
        ELSE <<log[CHOOSE k \in found : \A other \in found : k <= other]>>

\* stats.get(str(discord_id), {'events': 0, 'row': 0, 'ranking': 0, 'titles': 0})
stats_get(stats, discord_id) ==
    IF str(discord_id) \in DOMAIN stats THEN stats[str(discord_id)]
    ELSE [events |-> 0, row |-> 0, ranking |-> 0, titles |-> 0]

format_rotation_list(d, next_index) ==
    LET transition_index == next_from(d.rotation, 0)
        broken(i) == /\ At(d.rotation, i).owed > 0
                     /\ i = transition_index
                     /\ transition_index > 0
    IN  [text |-> [k \in 1..Len(d.rotation) |->
                      [game_name |-> d.rotation[k].game_name,
                       mention |-> d.rotation[k].discord_id,
                       owed |-> d.rotation[k].owed,
                       mvp_symbol |-> IF d.rotation[k].last_mvp_type \in MVP_TYPES
                                      THEN d.rotation[k].last_mvp_type ELSE "",
                       title |-> d.rotation[k].last_had_title,
                       line_break |-> broken(k - 1),
                       next |-> (k - 1 = next_index)]],
         data |-> d]

format_inactive_list(d) ==
    [text |-> [k \in 1..Len(d.inactive) |->
                  [game_name |-> d.inactive[k].game_name,
                   mention |-> d.inactive[k].discord_id]],
     data |-> d]

format_logs(d) ==
    LET all == d.logs.events \o d.logs.row \o d.logs.ranking
        all_dates == {all[k].date : k \in 1..Len(all)}
    IN  [text |-> [date_str \in all_dates |->
                      [events |-> first_with_date(d.logs.events, date_str),
                       row |-> first_with_date(d.logs.row, date_str),
                       ranking |-> first_with_date(d.logs.ranking, date_str)]],
         data |-> d]

\* mutant: the stats entry of a player without one is created while formatting
\* (stats.setdefault in the place of stats.get)
format_stats_setdefault(d) ==
    LET column(list) == [k \in 1..Len(list) |->
                            [name |-> list[k].game_name,
                             stats |-> stats_get(d.stats, list[k].discord_id)]]
        all == d.rotation \o d.inactive \o d.past_members
        keys == {str(all[k].discord_id) : k \in 1..Len(all)}
    IN  [text |-> [active |-> column(d.rotation), inactive |-> column(d.inactive),
                   past |-> column(d.past_members)],
         data |-> [d EXCEPT !.stats =
                      [key \in DOMAIN d.stats \cup keys |->
                          IF key \in DOMAIN d.stats THEN d.stats[key]
                          ELSE [events |-> 0, row |-> 0, ranking |-> 0, titles |-> 0]]]]

format_stats(d) ==
    LET column(list) == [k \in 1..Len(list) |->
                            [name |-> list[k].game_name,
                             stats |-> stats_get(d.stats, list[k].discord_id)]]
    IN  [text |-> [active |-> column(d.rotation), inactive |-> column(d.inactive),
                   past |-> column(d.past_members)],
         data |-> d]

\* update_officer_channel(channel, data, next_index): the embed it puts in
\* the officer channel, by message.edit when history() yields an
\* "MVP Rotation" message of the bot and by channel.send otherwise
update_officer_channel(d, next_index) ==
    [rotation_text |-> format_rotation_list(d, next_index).text,
     inactive_text |-> format_inactive_list(d).text]

----------------------------------------------------------------------------
(* award_mvp *)

\* mutant: the owed of the awarded player is reduced even when it is 0
awarded_copy_always_reduce(player, mvp_type, had_title) ==
    [player EXCEPT !.owed = @ - 1,
                   !.last_mvp_type = mvp_type,
                   !.last_had_title = had_title]

\* mutant: the owed of the awarded player is not reduced
awarded_copy_keep_owed(player, mvp_type, had_title) ==
    [player EXCEPT !.last_mvp_type = mvp_type, !.last_had_title = had_title]

\* player = rotation[player_index].copy() with owed reduced when it is owed,
\* and the last MVP type and title status set
awarded_copy(player, mvp_type, had_title) ==
    [player EXCEPT !.owed = IF @ > 0 THEN @ - 1 ELSE @,
                   !.last_mvp_type = mvp_type,
                   !.last_had_title = had_title]

zero_stats == [events |-> 0, row |-> 0, ranking |-> 0, titles |-> 0]

\* mutant: titles is incremented whatever had_title is
update_stats_always_title(stats, discord_id, mvp_type, had_title) ==
    LET key == str(discord_id)
        stats0 == IF key \in DOMAIN stats THEN stats ELSE (key :> zero_stats) @@ stats
        s0 == stats0[key]
        s1 == IF mvp_type = "EVENT" THEN [s0 EXCEPT !.events = @ + 1]
              ELSE IF mvp_type = "ROW" THEN [s0 EXCEPT !.row = @ + 1]
              ELSE IF mvp_type = "RANKING" THEN [s0 EXCEPT !.ranking = @ + 1]
              ELSE s0
    IN  [stats0 EXCEPT ![key] = [s1 EXCEPT !.titles = @ + 1]]

\* mutant: titles is never incremented
update_stats_never_title(stats, discord_id, mvp_type, had_title) ==
    LET key == str(discord_id)
        stats0 == IF key \in DOMAIN stats THEN stats ELSE (key :> zero_stats) @@ stats
        s0 == stats0[key]
        s1 == IF mvp_type = "EVENT" THEN [s0 EXCEPT !.events = @ + 1]
              ELSE IF mvp_type = "ROW" THEN [s0 EXCEPT !.row = @ + 1]
              ELSE IF mvp_type = "RANKING" THEN [s0 EXCEPT !.ranking = @ + 1]
              ELSE s0
    IN  [stats0 EXCEPT ![key] = s1]

\* data['stats'][str(discord_id)] created when missing, the counter of the
\* MVP type incremented, titles incremented when had_title
update_stats(stats, discord_id, mvp_type, had_title) ==
    LET key == str(discord_id)
        stats0 == IF key \in DOMAIN stats THEN stats ELSE (key :> zero_stats) @@ stats
        s0 == stats0[key]
        s1 == IF mvp_type = "EVENT" THEN [s0 EXCEPT !.events = @ + 1]
              ELSE IF mvp_type = "ROW" THEN [s0 EXCEPT !.row = @ + 1]
              ELSE IF mvp_type = "RANKING" THEN [s0 EXCEPT !.ranking = @ + 1]
              ELSE s0
        s2 == IF had_title THEN [s1 EXCEPT !.titles = @ + 1] ELSE s1
    IN  [stats0 EXCEPT ![key] = s2]

\* mutant: next_index is not adjusted for the removed player
adjust_next_index_keep(original_next_index, player_index) ==
    original_next_index

\* next_index after rotation.pop(player_index)
adjust_next_index(original_next_index, player_index) ==
    IF original_next_index > player_index THEN original_next_index - 1
    ELSE IF original_next_index = player_index THEN original_next_index
    ELSE original_next_index

\* mutant: range(lo, hi + 1)
mark_owed_inclusive(rotation, lo, hi) ==
    [k \in 1..Len(rotation) |->
        IF lo <= k - 1 /\ k - 1 <= hi
        THEN [rotation[k] EXCEPT !.owed = @ + 1]
        ELSE rotation[k]]

\* for i in range(lo, hi): rotation[i]['owed'] = rotation[i].get('owed', 0) + 1
mark_owed(rotation, lo, hi) ==
    [k \in 1..Len(rotation) |->
        IF lo <= k - 1 /\ k - 1 < hi
        THEN [rotation[k] EXCEPT !.owed = @ + 1]
        ELSE rotation[k]]

\* mutant: the awarded next player goes to the end of the rotation
reinsert_rotate(rotation, player, player_index, original_next_index, next_index) ==
    IF player_index < original_next_index
    THEN Insert(mark_owed(rotation, next_index + 1, Len(rotation)), next_index, player)
    ELSE IF player_index > original_next_index
    THEN Insert(mark_owed(rotation, next_index, player_index), next_index, player)
    ELSE Append(rotation, player)

\* mutant: a player chosen before the next one marks the next one as owed too
reinsert_mark_holder(rotation, player, player_index, original_next_index, next_index) ==
    IF player_index < original_next_index
    THEN Insert(mark_owed(rotation, next_index, Len(rotation)), next_index, player)
    ELSE IF player_index > original_next_index
    THEN Insert(mark_owed(rotation, next_index, player_index), next_index, player)
    ELSE Insert(rotation, next_index, player)

\* "Determine who gets marked as owed": rotation is the list after the pop
reinsert(rotation, player, player_index, original_next_index, next_index) ==
    IF player_index < original_next_index
    THEN Insert(mark_owed(rotation, next_index + 1, Len(rotation)), next_index, player)
    ELSE IF player_index > original_next_index
    THEN Insert(mark_owed(rotation, next_index, player_index), next_index, player)
    ELSE Insert(rotation, next_index, player)

\* mutant: every entry goes to the events log
append_log_events(logs, mvp_type, log_entry) ==
    [logs EXCEPT !.events = Append(@, log_entry)]

\* "Add to logs"
append_log(logs, mvp_type, log_entry) ==
    IF mvp_type = "EVENT" THEN [logs EXCEPT !.events = Append(@, log_entry)]
    ELSE IF mvp_type = "ROW" THEN [logs EXCEPT !.row = Append(@, log_entry)]
    ELSE IF mvp_type = "RANKING" THEN [logs EXCEPT !.ranking = Append(@, log_entry)]
    ELSE logs

\* mutant: without the player_index < 0 test, a negative index counting from
\* the end of the list as Python's rotation[player_index] does
award_mvp_negative_index(d, given_index, mvp_type, had_title, date_str) ==
    IF given_index >= Len(d.rotation) \/ given_index + Len(d.rotation) < 0
    THEN [data |-> d, ret |-> <<>>]
    ELSE
        LET player_index == IF given_index < 0 THEN given_index + Len(d.rotation)
                            ELSE given_index
            player == awarded_copy(At(d.rotation, player_index), mvp_type, had_title)
            original_next_index == get_next_index(d)
            stats == update_stats(d.stats, player.discord_id, mvp_type, had_title)
            popped == Pop(d.rotation, player_index)
            next_index == adjust_next_index(original_next_index, player_index)
            rotation == reinsert(popped, player, player_index,
                                 original_next_index, next_index)
            log_entry == [date |-> date_str, name |-> player.game_name,
                          had_title |-> had_title]
            logs == append_log(d.logs, mvp_type, log_entry)
        IN  [data |-> [d EXCEPT !.rotation = rotation, !.stats = stats, !.logs = logs],
             ret |-> <<player>>]

\* award_mvp(data, player_index, mvp_type, had_title), date_str being
\* datetime.now() formatted.  ret is <<>> for None and <<player>> otherwise;
\* data is what the call leaves in DATA_FILE.
award_mvp(d, player_index, mvp_type, had_title, date_str) ==
    IF player_index < 0 \/ player_index >= Len(d.rotation)
    THEN [data |-> d, ret |-> <<>>]
    ELSE
        LET player == awarded_copy(At(d.rotation, player_index), mvp_type, had_title)
            original_next_index == get_next_index(d)
            stats == update_stats(d.stats, player.discord_id, mvp_type, had_title)
            popped == Pop(d.rotation, player_index)
            next_index == adjust_next_index(original_next_index, player_index)
            rotation == reinsert(popped, player, player_index,
                                 original_next_index, next_index)
            log_entry == [date |-> date_str, name |-> player.game_name,
                          had_title |-> had_title]
            logs == append_log(d.logs, mvp_type, log_entry)
        IN  [data |-> [d EXCEPT !.rotation = rotation, !.stats = stats, !.logs = logs],
             ret |-> <<player>>]

----------------------------------------------------------------------------
(* The handlers.  Each is an operator from the loaded record and the       *)
(* handler's arguments to the record it leaves in DATA_FILE and to what it *)
(* computed on the way: op, the discord id it was given (key), the index   *)
(* its lookup found (player_index), award_mvp's return value (ret), the    *)
(* reply it sends, and the next_index it hands to update_officer_channel   *)
(* (<<>> when it returns before computing one).                            *)

Outcome(d, op, key, player_index, mvp_type, had_title, ret, reply, next_index) ==
    [data |-> d,
     op |-> [op |-> op, key |-> key, player_index |-> player_index,
             mvp_type |-> mvp_type, had_title |-> had_title, ret |-> ret,
             reply |-> reply, next_index |-> next_index]]

new_player(game_name, discord_id) ==
    [game_name |-> game_name, discord_id |-> discord_id, owed |-> 0,
     last_mvp_type |-> "", last_had_title |-> FALSE]

\* /add_player
add_player(d, game_name, id) ==
    LET found == find_index(d.rotation, id)
        d2 == [d EXCEPT !.rotation = Append(@, new_player(game_name, id))]
    IN  IF found # -1
        THEN Outcome(d, "add_player", id, found, "", FALSE, <<>>, "already", <<>>)
        ELSE Outcome(d2, "add_player", id, found, "", FALSE, <<>>, "added",
                     <<get_next_index(d2)>>)

\* mutant: the new name goes to the first entry of the list the id is in
change_name_first(d, id, new_name) ==
    LET i == find_index(d.rotation, id)
        j == find_index(d.inactive, id)
        d2 == [d EXCEPT !.rotation[1].game_name = new_name]
        d3 == [d EXCEPT !.inactive[1].game_name = new_name]
    IN  IF i # -1
        THEN Outcome(d2, "change_name", id, i, "", FALSE, <<>>, "updated",
                     <<get_next_index(d2)>>)
        ELSE IF j # -1
        THEN Outcome(d3, "change_name", id, j, "", FALSE, <<>>, "updated", <<>>)
        ELSE Outcome(d, "change_name", id, -1, "", FALSE, <<>>, "notfound", <<>>)

\* /change_name
change_name(d, id, new_name) ==
    LET i == find_index(d.rotation, id)
        j == find_index(d.inactive, id)
        d2 == [d EXCEPT !.rotation[i + 1].game_name = new_name]
        d3 == [d EXCEPT !.inactive[j + 1].game_name = new_name]
    IN  IF i # -1
        THEN Outcome(d2, "change_name", id, i, "", FALSE, <<>>, "updated",
                     <<get_next_index(d2)>>)
        ELSE IF j # -1
        THEN Outcome(d3, "change_name", id, j, "", FALSE, <<>>, "updated", <<>>)
        ELSE Outcome(d, "change_name", id, -1, "", FALSE, <<>>, "notfound", <<>>)

\* a call award_mvp(data, player_index, mvp_type, had_title) on the loaded record
award_mvp_call(d, player_index, mvp_type, had_title, date_str) ==
    LET r == award_mvp(d, player_index, mvp_type, had_title, date_str)
    IN  Outcome(r.data, "award_mvp_call", 0, player_index, mvp_type, had_title,
                r.ret, "", <<>>)

\* mvp_type.upper()
upper(mvp_type) ==
    IF mvp_type = "event" THEN "EVENT"
    ELSE IF mvp_type = "row" THEN "ROW"
    ELSE IF mvp_type = "ranking" THEN "RANKING"
    ELSE IF mvp_type = "other" THEN "OTHER"
    ELSE mvp_type

\* TitleConfirmView(player_id, player_name, mvp_type) as it is sent.
\* player_index (where the command found the player), presses and awards
\* (the button callbacks run, and those that awarded) are history.
TitleConfirmView(player_id, mvp_type, player_index) ==
    [player_id |-> player_id, mvp_type |-> mvp_type, timed_out |-> FALSE,
     player_index |-> player_index, presses |-> 0, awards |-> 0]

\* /award_mvp: the reply is "prompted" when it carries a TitleConfirmView
award_mvp_command(d, member_id, mvp_type) ==
    LET player_index == find_index(d.rotation, member_id)
    IN  IF upper(mvp_type) \notin MVP_TYPES
        THEN Outcome(d, "award_mvp_command", member_id, -1, mvp_type, FALSE, <<>>,
                     "invalid", <<>>)
        ELSE IF player_index = -1
        THEN Outcome(d, "award_mvp_command", member_id, -1, mvp_type, FALSE, <<>>,
                     "notfound", <<>>)
        ELSE Outcome(d, "award_mvp_command", member_id, player_index,
                     upper(mvp_type), FALSE, <<>>, "prompted", <<>>)

\* mutant: the award goes to the head of the rotation
title_confirm_head(d, player_id, mvp_type, had_title, date_str) ==
    LET r == award_mvp(d, 0, mvp_type, had_title, date_str)
    IN  IF r.ret # <<>>
        THEN Outcome(r.data, "award_mvp", player_id, 0, mvp_type,
                     had_title, r.ret, "awarded", <<get_next_index(r.data)>>)
        ELSE Outcome(r.data, "award_mvp", player_id, -1, mvp_type,
                     had_title, r.ret, "notfound", <<>>)

\* TitleConfirmView.award_mvp, behind the "Yes, got title" and "No title"
\* buttons of the prompt for player_id and mvp_type
title_confirm(d, player_id, mvp_type, had_title, date_str) ==
    LET player_index == find_index(d.rotation, player_id)
        r == award_mvp(d, player_index, mvp_type, had_title, date_str)
    IN  IF player_index = -1
        THEN Outcome(d, "award_mvp", player_id, -1, mvp_type, had_title, <<>>,
                     "notfound", <<>>)
        ELSE IF r.ret # <<>>
        THEN Outcome(r.data, "award_mvp", player_id, player_index, mvp_type,
                     had_title, r.ret, "awarded", <<get_next_index(r.data)>>)
        ELSE Outcome(r.data, "award_mvp", player_id, player_index, mvp_type,
                     had_title, r.ret, "failed", <<>>)

\* /move_up and PlayerActionView.move_up_button
move_up(d, id) ==
    LET player_index == find_index(d.rotation, id)
        d2 == [d EXCEPT !.rotation = Swap(@, player_index, player_index - 1)]
    IN  IF player_index = -1
        THEN Outcome(d, "move_up", id, -1, "", FALSE, <<>>, "notfound", <<>>)
        ELSE IF player_index = 0
        THEN Outcome(d, "move_up", id, 0, "", FALSE, <<>>, "top", <<>>)
        ELSE Outcome(d2, "move_up", id, player_index, "", FALSE, <<>>, "moved",
                     <<get_next_index(d2)>>)

\* /move_down and PlayerActionView.move_down_button
move_down(d, id) ==
    LET player_index == find_index(d.rotation, id)
        d2 == [d EXCEPT !.rotation = Swap(@, player_index, player_index + 1)]
    IN  IF player_index = -1
        THEN Outcome(d, "move_down", id, -1, "", FALSE, <<>>, "notfound", <<>>)
        ELSE IF player_index = Len(d.rotation) - 1
        THEN Outcome(d, "move_down", id, player_index, "", FALSE, <<>>, "bottom", <<>>)
        ELSE Outcome(d2, "move_down", id, player_index, "", FALSE, <<>>, "moved",
                     <<get_next_index(d2)>>)

\* mutant: the player moved to inactive loses what is owed
to_inactive_reset_owed(d, id) ==
    LET player_index == find_index(d.rotation, id)
        d2 == [d EXCEPT !.rotation = Pop(@, player_index),
                        !.inactive = Append(@, [At(d.rotation, player_index)
                                                    EXCEPT !.owed = 0])]
    IN  IF player_index = -1
        THEN Outcome(d, "to_inactive", id, -1, "", FALSE, <<>>, "notfound", <<>>)
        ELSE Outcome(d2, "to_inactive", id, player_index, "", FALSE, <<>>, "moved",
                     <<get_next_index(d2)>>)

\* /to_inactive and PlayerActionView.to_inactive_button
to_inactive(d, id) ==
    LET player_index == find_index(d.rotation, id)
        d2 == [d EXCEPT !.rotation = Pop(@, player_index),
                        !.inactive = Append(@, At(d.rotation, player_index))]
    IN  IF player_index = -1
        THEN Outcome(d, "to_inactive", id, -1, "", FALSE, <<>>, "notfound", <<>>)
        ELSE Outcome(d2, "to_inactive", id, player_index, "", FALSE, <<>>, "moved",
                     <<get_next_index(d2)>>)

\* /from_inactive and InactiveActionView.back_button
from_inactive(d, id) ==
    LET player_index == find_index(d.inactive, id)
        d2 == [d EXCEPT !.inactive = Pop(@, player_index),
                        !.rotation = Append(@, At(d.inactive, player_index))]
    IN  IF player_index = -1
        THEN Outcome(d, "from_inactive", id, -1, "", FALSE, <<>>, "notfound", <<>>)
        ELSE Outcome(d2, "from_inactive", id, player_index, "", FALSE, <<>>, "moved",
                     <<get_next_index(d2)>>)

\* mutant: the removed player is put at the head of past_members
remove_player_head(d, id) ==
    LET i == find_index(d.rotation, id)
        j == find_index(d.inactive, id)
        d2 == [d EXCEPT !.rotation = Pop(@, i),
                        !.past_members = Insert(@, 0, At(d.rotation, i))]
        d3 == [d EXCEPT !.inactive = Pop(@, j),
                        !.past_members = Insert(@, 0, At(d.inactive, j))]
    IN  IF i # -1
        THEN Outcome(d2, "remove_player", id, i, "", FALSE, <<>>, "moved",
                     <<get_next_index(d2)>>)
        ELSE IF j # -1
        THEN Outcome(d3, "remove_player", id, j, "", FALSE, <<>>, "moved",
                     <<get_next_index(d3)>>)
        ELSE Outcome(d, "remove_player", id, -1, "", FALSE, <<>>, "notfound", <<>>)

\* mutant: the stats of the removed player are dropped
remove_player_drop_stats(d, id) ==
    LET i == find_index(d.rotation, id)
        j == find_index(d.inactive, id)
        stats == [key \in DOMAIN d.stats \ {str(id)} |-> d.stats[key]]
        d2 == [d EXCEPT !.rotation = Pop(@, i),
                        !.past_members = Append(@, At(d.rotation, i)),
                        !.stats = stats]
        d3 == [d EXCEPT !.inactive = Pop(@, j),
                        !.past_members = Append(@, At(d.inactive, j)),
                        !.stats = stats]
    IN  IF i # -1
        THEN Outcome(d2, "remove_player", id, i, "", FALSE, <<>>, "moved",
                     <<get_next_index(d2)>>)
        ELSE IF j # -1
        THEN Outcome(d3, "remove_player", id, j, "", FALSE, <<>>, "moved",
                     <<get_next_index(d3)>>)
        ELSE Outcome(d, "remove_player", id, -1, "", FALSE, <<>>, "notfound", <<>>)

\* /remove_player
remove_player(d, id) ==
    LET i == find_index(d.rotation, id)
        j == find_index(d.inactive, id)
        d2 == [d EXCEPT !.rotation = Pop(@, i),
                        !.past_members = Append(@, At(d.rotation, i))]
        d3 == [d EXCEPT !.inactive = Pop(@, j),
                        !.past_members = Append(@, At(d.inactive, j))]
    IN  IF i # -1
        THEN Outcome(d2, "remove_player", id, i, "", FALSE, <<>>, "moved",
                     <<get_next_index(d2)>>)
        ELSE IF j # -1
        THEN Outcome(d3, "remove_player", id, j, "", FALSE, <<>>, "moved",
                     <<get_next_index(d3)>>)
        ELSE Outcome(d, "remove_player", id, -1, "", FALSE, <<>>, "notfound", <<>>)

\* InactiveActionView.remove_button
remove_button(d, player_id) ==
    LET player_index == find_index(d.inactive, player_id)
        d2 == [d EXCEPT !.inactive = Pop(@, player_index)]
    IN  IF player_index = -1
        THEN Outcome(d, "remove_button", player_id, -1, "", FALSE, <<>>, "notfound", <<>>)
        ELSE Outcome(d2, "remove_button", player_id, player_index, "", FALSE, <<>>,
                     "removed", <<get_next_index(d2)>>)

\* /refresh
refresh(d) ==
    Outcome(d, "refresh", 0, -1, "", FALSE, <<>>, "refreshed", <<get_next_index(d)>>)

----------------------------------------------------------------------------
(* State machine *)

TotalEntries(d) == Len(d.rotation) + Len(d.inactive) + Len(d.past_members)
TotalAwards(d) == Len(d.logs.events) + Len(d.logs.row) + Len(d.logs.ranking)

\* a command as discord hands it to a handler, and a task before its dispatch
Command(op, key, name, mvp_type, had_title) ==
    [op |-> op, key |-> key, name |-> name, mvp_type |-> mvp_type,
     had_title |-> had_title]

IdleTask ==
    [pc |-> "idle", cmd |-> Command("", 0, "", "", FALSE), loaded |-> <<>>,
     reply |-> ""]

Init ==
    /\ data = load_data_default
    /\ prev = load_data_default
    /\ lastOp = Outcome(load_data_default, "load_data", 0, -1, "", FALSE, <<>>,
                        "", <<>>).op
    /\ tasks = [t \in 1..NumTasks |-> IdleTask]
    /\ serial = load_data_default
    /\ file = "missing"
    /\ views = <<>>
    /\ message = <<>>

\* the handler run r has called save_data
saves(r) ==
    \/ r.op.reply \in SavingReplies
    \/ r.op.op = "award_mvp_call" /\ r.op.ret # <<>>

\* one handler run with no other handler dispatched: what it loaded, what it
\* left in DATA_FILE, what it did
Run(r) ==
    /\ load_data(file, data) # <<>>
    /\ data' = r.data
    /\ prev' = data
    /\ lastOp' = r.op
    /\ serial' = r.data
    /\ file' = IF saves(r) THEN save_data(file, "closed") ELSE file
    /\ UNCHANGED <<tasks, views, message>>

\* a handler run that sends a prompt or is a prompt's button callback: views
\* becomes shown
RunView(r, shown) ==
    /\ load_data(file, data) # <<>>
    /\ data' = r.data
    /\ prev' = data
    /\ lastOp' = r.op
    /\ serial' = r.data
    /\ file' = IF saves(r) THEN save_data(file, "closed") ELSE file
    /\ views' = shown
    /\ UNCHANGED <<tasks, message>>

AddPlayer ==
    \E id \in Players, game_name \in GameNames :
        /\ TotalEntries(data) < MaxEntries
        /\ Run(add_player(data, game_name, id))

ChangeName ==
    \E id \in Players, new_name \in GameNames :
        Run(change_name(data, id, new_name))

TitleConfirm ==
    \E id \in Players, mvp_type \in MVP_TYPES, had_title \in BOOLEAN, date_str \in Dates :
        /\ TotalAwards(data) < MaxAwards
        /\ Run(title_confirm(data, id, mvp_type, had_title, date_str))

MoveUp == \E id \in Players : Run(move_up(data, id))

MoveDown == \E id \in Players : Run(move_down(data, id))

ToInactive == \E id \in Players : Run(to_inactive(data, id))

FromInactive == \E id \in Players : Run(from_inactive(data, id))

RemovePlayer == \E id \in Players : Run(remove_player(data, id))

RemoveButton == \E id \in Players : Run(remove_button(data, id))

Refresh == Run(refresh(data))

Next ==
    \/ AddPlayer
    \/ ChangeName
    \/ TitleConfirm
    \/ MoveUp
    \/ MoveDown
    \/ ToInactive
    \/ FromInactive
    \/ RemovePlayer
    \/ RemoveButton
    \/ Refresh

Spec == Init /\ [][Next]_vars

----------------------------------------------------------------------------
(* Awards on a fixed roster: players are added to the empty store, and     *)
(* from the first award on the only handler run is the award confirmation. *)

SetupAdd ==
    \E id \in Roster, game_name \in RosterNames :
        /\ TotalAwards(data) = 0
        /\ Run(add_player(data, game_name, id))

RunAward ==
    \E id \in Roster, input \in AwardInputs, date_str \in Dates :
        /\ TotalAwards(data) < RunAwards
        /\ Run(title_confirm(data, id, input[1], input[2], date_str))

NextAward == SetupAdd \/ RunAward

AwardSpec == Init /\ [][NextAward]_vars

(* The same, every award going to the player get_next_index designates.    *)

DesignatedAward ==
    \E mvp_type \in MVP_TYPES, had_title \in BOOLEAN, date_str \in Dates :
        /\ data.rotation # <<>>
        /\ TotalAwards(data) < DesignatedRuns
        /\ Run(title_confirm(data, At(data.rotation, get_next_index(data)).discord_id,
                             mvp_type, had_title, date_str))

NextDesignated == SetupAdd \/ DesignatedAward

DesignatedSpec == Init /\ [][NextDesignated]_vars

----------------------------------------------------------------------------
(* The roster handlers on the discord ids of Roster, with at most          *)
(* LifeAwards award confirmations in between.                              *)

LifeAdd ==
    \E id \in Roster, game_name \in RosterNames :
        /\ TotalEntries(data) < RosterSize
        /\ Run(add_player(data, game_name, id))

LifeAward ==
    \E id \in Roster, input \in AwardInputs, date_str \in Dates :
        /\ TotalAwards(data) < LifeAwards
        /\ Run(title_confirm(data, id, input[1], input[2], date_str))

LifeMoveUp == \E id \in Roster : Run(move_up(data, id))

LifeMoveDown == \E id \in Roster : Run(move_down(data, id))

LifeToInactive == \E id \in Roster : Run(to_inactive(data, id))

LifeFromInactive == \E id \in Roster : Run(from_inactive(data, id))

LifeRemovePlayer == \E id \in Roster : Run(remove_player(data, id))

LifeRemoveButton == \E id \in Roster : Run(remove_button(data, id))

NextLife ==
    \/ LifeAdd
    \/ LifeAward
    \/ LifeMoveUp
    \/ LifeMoveDown
    \/ LifeToInactive
    \/ LifeFromInactive
    \/ LifeRemovePlayer
    \/ LifeRemoveButton

LifeSpec == Init /\ [][NextLife]_vars

----------------------------------------------------------------------------
(* Handlers dispatched concurrently.  discord.py runs every interaction    *)
(* callback as a task on the one event loop; a task runs until its next    *)
(* await, and then another task may run.                                   *)

\* the handlers with an await between load_data() and save_data()
AwaitsBeforeSave == {}

\* mutant: every handler awaits between load_data() and save_data()
awaits_before_save_all(op) == TRUE

awaits_before_save(op) == op \in AwaitsBeforeSave

\* the commands of the mutating handlers
Commands ==
    {Command("add_player", id, name, "", FALSE) : id \in Players, name \in RosterNames}
    \cup {Command("change_name", id, name, "", FALSE) : id \in Players, name \in GameNames}
    \cup {Command("award_mvp", id, "", input[1], input[2]) :
              id \in Players, input \in AwardInputs}
    \cup {Command(op, id, "", "", FALSE) :
              op \in {"move_up", "move_down", "to_inactive", "from_inactive",
                      "remove_player"},
              id \in Players}

\* the handler of a command, run on the record d it loaded
handle(d, cmd) ==
    CASE cmd.op = "add_player" -> add_player(d, cmd.name, cmd.key)
      [] cmd.op = "change_name" -> change_name(d, cmd.key, cmd.name)
      [] cmd.op = "award_mvp" ->
             title_confirm(d, cmd.key, cmd.mvp_type, cmd.had_title,
                           CHOOSE date_str \in Dates : TRUE)
      [] cmd.op = "move_up" -> move_up(d, cmd.key)
      [] cmd.op = "move_down" -> move_down(d, cmd.key)
      [] cmd.op = "to_inactive" -> to_inactive(d, cmd.key)
      [] cmd.op = "from_inactive" -> from_inactive(d, cmd.key)
      [] cmd.op = "remove_player" -> remove_player(d, cmd.key)

\* players are added before the first task is dispatched
ConcSetup ==
    \E id \in Players, game_name \in RosterNames :
        /\ tasks[1].pc = "idle"
        /\ TotalEntries(data) < MaxEntries
        /\ Run(add_player(data, game_name, id))

\* an interaction arrives: its callback becomes a task
Dispatch(t) ==
    \E cmd \in Commands :
        /\ tasks[t].pc = "idle"
        /\ t > 1 => tasks[t - 1].pc # "idle"
        /\ tasks' = [tasks EXCEPT ![t] = [@ EXCEPT !.pc = "ready", !.cmd = cmd]]
        /\ UNCHANGED <<data, prev, lastOp, serial, file, views, message>>

\* the event loop runs task t up to its next await: from the start of the
\* handler to the await after save_data (or to the await of a failure
\* reply), unless the handler awaits between load_data() and save_data()
RunTask(t) ==
    LET task == tasks[t]
        loaded == IF task.pc = "loaded" THEN task.loaded[1] ELSE data
        r == handle(loaded, task.cmd)
    IN  /\ task.pc \in {"ready", "loaded"}
        /\ IF task.pc = "ready" /\ awaits_before_save(task.cmd.op)
           THEN /\ tasks' = [tasks EXCEPT ![t] = [@ EXCEPT !.pc = "loaded",
                                                           !.loaded = <<data>>]]
                /\ UNCHANGED <<data, prev, lastOp, serial, file, views, message>>
           ELSE /\ data' = IF saves(r) THEN r.data ELSE data
                /\ file' = IF saves(r) THEN save_data(file, "closed") ELSE file
                /\ prev' = loaded
                /\ lastOp' = r.op
                /\ serial' = handle(serial, task.cmd).data
                /\ tasks' = [tasks EXCEPT ![t] = [@ EXCEPT !.pc = "replying",
                                                           !.loaded = <<loaded>>,
                                                           !.reply = r.op.reply]]
                /\ UNCHANGED <<views, message>>

\* the reply is sent and the channels are rendered from the task's own data
Finish(t) ==
    /\ tasks[t].pc = "replying"
    /\ tasks' = [tasks EXCEPT ![t] = [@ EXCEPT !.pc = "done"]]
    /\ UNCHANGED <<data, prev, lastOp, serial, file, views, message>>

NextConc ==
    \/ ConcSetup
    \/ \E t \in 1..NumTasks : Dispatch(t)
    \/ \E t \in 1..NumTasks : RunTask(t)
    \/ \E t \in 1..NumTasks : Finish(t)

ConcSpec == Init /\ [][NextConc]_vars

----------------------------------------------------------------------------
(* The officer channel under overlapping handlers.  A handler that saved   *)
(* awaits its reply and then renders the officer channel from the record   *)
(* it holds, the one it loaded and changed; the replies of two tasks may   *)
(* complete in either order.                                               *)

\* players are added and rendered before the first task is dispatched
RenderSetup ==
    \E id \in Players, game_name \in RosterNames :
        LET r == add_player(data, game_name, id)
        IN  /\ tasks[1].pc = "idle"
            /\ TotalEntries(data) < MaxEntries
            /\ load_data(file, data) # <<>>
            /\ data' = r.data
            /\ prev' = data
            /\ lastOp' = r.op
            /\ serial' = r.data
            /\ file' = IF saves(r) THEN save_data(file, "closed") ELSE file
            /\ message' = IF r.op.next_index # <<>>
                          THEN <<update_officer_channel(r.data, r.op.next_index[1])>>
                          ELSE message
            /\ UNCHANGED <<tasks, views>>

\* the reply of task t is sent; the task goes on to update_officer_channel
\* with its own data when its handler gets that far
Render(t) ==
    LET task == tasks[t]
        r == handle(task.loaded[1], task.cmd)
    IN  /\ task.pc = "replying"
        /\ tasks' = [tasks EXCEPT ![t] = [@ EXCEPT !.pc = "done"]]
        /\ message' = IF r.op.next_index # <<>>
                      THEN <<update_officer_channel(r.data, r.op.next_index[1])>>
                      ELSE message
        /\ UNCHANGED <<data, prev, lastOp, serial, file, views>>

NextRender ==
    \/ RenderSetup
    \/ \E t \in 1..NumTasks : Dispatch(t)
    \/ \E t \in 1..NumTasks : RunTask(t)
    \/ \E t \in 1..NumTasks : Render(t)

RenderSpec == Init /\ [][NextRender]_vars

----------------------------------------------------------------------------
(* award_mvp called on its own: players are added, and from the first call *)
(* that goes through on the function is called with any index from -1 to   *)
(* RosterSize, with the MVP types and with a string that is no MVP type.   *)

CallIndexes == (-1)..RosterSize
CallInputs == AwardInputs \cup {<<"OTHER", FALSE>>, <<"OTHER", TRUE>>}

MaxOwed(d) ==
    IF d.rotation = <<>> THEN 0
    ELSE CHOOSE m \in {d.rotation[k].owed : k \in 1..Len(d.rotation)} :
             \A k \in 1..Len(d.rotation) : d.rotation[k].owed <= m

MaxTitles(d) ==
    IF DOMAIN d.stats = {} THEN 0
    ELSE CHOOSE m \in {d.stats[key].titles : key \in DOMAIN d.stats} :
             \A key \in DOMAIN d.stats : d.stats[key].titles <= m

CallSetup ==
    \E id \in Roster, game_name \in RosterNames :
        /\ DOMAIN data.stats = {}
        /\ Run(add_player(data, game_name, id))

CallAward ==
    \E player_index \in CallIndexes, input \in CallInputs, date_str \in Dates :
        /\ TotalAwards(data) < CallRuns
        /\ MaxOwed(data) < CallRuns
        /\ MaxTitles(data) < CallRuns
        /\ Run(award_mvp_call(data, player_index, input[1], input[2], date_str))

NextCall == CallSetup \/ CallAward

CallSpec == Init /\ [][NextCall]_vars

----------------------------------------------------------------------------
(* The process dying inside save_data.  Players are added and awards made  *)
(* as in AwardSpec; a handler run may end at any point of save_data, and   *)
(* the bot is started again.                                               *)

\* the handler run r dies when save_data has got as far as reached
CrashRun(r, reached) ==
    /\ load_data(file, data) # <<>>
    /\ saves(r)
    /\ data' = IF reached = "makedirs" THEN data ELSE r.data
    /\ prev' = data
    /\ lastOp' = [r.op EXCEPT !.reply = "crashed", !.next_index = <<>>]
    /\ serial' = data'
    /\ file' = save_data(file, reached)
    /\ UNCHANGED <<tasks, views, message>>

CrashAdd ==
    \E id \in Roster, game_name \in RosterNames, reached \in SavePoints :
        /\ TotalAwards(data) = 0
        /\ CrashRun(add_player(data, game_name, id), reached)

CrashAward ==
    \E id \in Roster, input \in AwardInputs, date_str \in Dates, reached \in SavePoints :
        /\ TotalAwards(data) < RunAwards
        /\ CrashRun(title_confirm(data, id, input[1], input[2], date_str), reached)

NextCrash == SetupAdd \/ RunAward \/ CrashAdd \/ CrashAward

CrashSpec == Init /\ [][NextCrash]_vars

----------------------------------------------------------------------------
(* The award in two steps.  /award_mvp sends a TitleConfirmView; each of   *)
(* its two buttons runs TitleConfirmView.award_mvp for as long as the view *)
(* has not timed out (timeout=300, counted from the last interaction).     *)
(* Between the prompt and a button other handlers run.                     *)

PromptAdd ==
    \E id \in Players, game_name \in RosterNames :
        /\ views = <<>>
        /\ TotalEntries(data) < MaxEntries
        /\ Run(add_player(data, game_name, id))

AwardCommand ==
    \E id \in Players, mvp_type \in PromptTypes :
        LET r == award_mvp_command(data, id, mvp_type)
        IN  /\ Len(views) < MaxViews
            /\ RunView(r, IF r.op.reply = "prompted"
                          THEN Append(views, TitleConfirmView(id, r.op.mvp_type,
                                                              r.op.player_index))
                          ELSE views)

\* yes_button (had_title) and no_button of the prompt views[v]
Press(v) ==
    \E had_title \in BOOLEAN, date_str \in Dates :
        LET view == views[v]
            r == title_confirm(data, view.player_id, view.mvp_type, had_title,
                               date_str)
        IN  /\ ~view.timed_out
            /\ view.presses < MaxPresses
            /\ TotalAwards(data) < PromptAwards
            /\ RunView(r, [views EXCEPT ![v] =
                              [@ EXCEPT !.presses = @ + 1,
                                        !.awards = IF r.op.reply = "awarded"
                                                   THEN @ + 1 ELSE @]])

\* 300 seconds pass without an interaction with views[v]
ViewTimeout(v) ==
    /\ ~views[v].timed_out
    /\ views' = [views EXCEPT ![v] = [@ EXCEPT !.timed_out = TRUE]]
    /\ UNCHANGED <<data, prev, lastOp, tasks, serial, file, message>>

NextPrompt ==
    \/ PromptAdd
    \/ AwardCommand
    \/ \E v \in 1..Len(views) : Press(v)
    \/ \E v \in 1..Len(views) : ViewTimeout(v)
    \/ MoveUp
    \/ ToInactive
    \/ FromInactive

PromptSpec == Init /\ [][NextPrompt]_vars

----------------------------------------------------------------------------
(* Vocabulary of the properties *)

\* the last handler run was an award that went through
Awarded == lastOp.op = "award_mvp" /\ lastOp.ret # <<>>

\* the rotation the award started from, the index it was called with, the
\* next index computed on the list before the removal, the rotation it left
old_rotation == prev.rotation
chosen_index == lastOp.player_index
orig_next == get_next_index(prev)
new_rotation == data.rotation

Indexes(list) == 0..(Len(list) - 1)
Ids(list) == [k \in 1..Len(list) |-> list[k].discord_id]
OwedOf(list, id) == At(list, find_index(list, id)).owed

\* awards a discord id has received, by data['stats']
Awards(id) ==
    IF str(id) \in DOMAIN data.stats
    THEN data.stats[str(id)].events + data.stats[str(id)].row
         + data.stats[str(id)].ranking
    ELSE 0

\* the smallest index with owed > 0, 0 when there is none, -1 on the empty list
SmallestOwed(rotation) ==
    LET owing == {i \in Indexes(rotation) : At(rotation, i).owed > 0}
    IN  IF rotation = <<>> THEN -1
        ELSE IF owing = {} THEN 0
        ELSE CHOOSE i \in owing : \A j \in owing : i <= j

----------------------------------------------------------------------------
(* C1: on an unchanged active roster, no participant has received a second *)
(* award while another active participant has not received a first one.    *)
(* (AwardSpec: the roster is fixed from the first award on.)                *)
C1_NoSecondBeforeFirst ==
    \A p \in Indexes(data.rotation), q \in Indexes(data.rotation) :
        ~ (/\ Awards(At(data.rotation, p).discord_id) >= 2
           /\ Awards(At(data.rotation, q).discord_id) = 0)

(* C2: on a fixed roster of two or more, when every award goes to the      *)
(* participant get_next_index designates, every active participant gets an *)
(* award: at the latest when DesignatedRuns awards (more than the roster   *)
(* has participants) have been made.  (DesignatedSpec)                     *)
C2_EveryoneAwarded ==
    (TotalAwards(data) = DesignatedRuns /\ Len(data.rotation) >= 2)
        => \A p \in Indexes(data.rotation) :
               Awards(At(data.rotation, p).discord_id) > 0

(* C3: get_next_index returns the smallest index whose entry has owed > 0, *)
(* 0 when no entry of a non-empty list has, and -1 for the empty list;     *)
(* so does every handler that hands a next_index to the officer channel.   *)
C3_SelectorCorrect ==
    /\ get_next_index(data) = SmallestOwed(data.rotation)
    /\ lastOp.next_index # <<>> => lastOp.next_index = <<SmallestOwed(data.rotation)>>

C3_Witness ==
    /\ Len(data.rotation) = 3
    /\ lastOp.next_index = <<2>>
    /\ At(data.rotation, 2).owed > 0

(* C4: an award to the designated entry (chosen_index = next index)        *)
(* changes no other entry's owed and leaves the awarded entry at the index *)
(* that was the next index before the award.                               *)
C4_DesignatedNeutral ==
    (Awarded /\ chosen_index = orig_next) =>
        /\ Len(new_rotation) = Len(old_rotation)
        /\ At(new_rotation, orig_next) = lastOp.ret[1]
        /\ At(new_rotation, orig_next).discord_id
               = At(old_rotation, chosen_index).discord_id
        /\ \A k \in Indexes(old_rotation) \ {chosen_index} :
               /\ At(new_rotation, k).discord_id = At(old_rotation, k).discord_id
               /\ At(new_rotation, k).owed = At(old_rotation, k).owed

C4_Witness ==
    /\ Awarded
    /\ chosen_index = orig_next
    /\ chosen_index > 0
    /\ \E k \in Indexes(old_rotation) \ {chosen_index} : At(old_rotation, k).owed > 0

(* C5: an award with chosen_index > next index adds 1 to the owed of the   *)
(* entries that stood at the indexes next index .. chosen_index - 1, which *)
(* are chosen_index - next index entries, and to no other entry: every     *)
(* other entry but the awarded one keeps its owed.                         *)
C5_ForwardSkip ==
    (Awarded /\ chosen_index > orig_next) =>
        LET others == Indexes(old_rotation) \ {chosen_index}
            gain(k) == OwedOf(new_rotation, At(old_rotation, k).discord_id)
                           - At(old_rotation, k).owed
        IN  /\ \A k \in others :
                   gain(k) = IF orig_next <= k /\ k < chosen_index THEN 1 ELSE 0
            /\ Cardinality({k \in others : gain(k) = 1}) = chosen_index - orig_next
            /\ Ids(Pop(new_rotation, orig_next)) = Ids(Pop(old_rotation, chosen_index))

C5_Witness ==
    /\ Awarded
    /\ chosen_index > orig_next
    /\ orig_next > 0
    /\ chosen_index - orig_next = 1
    /\ At(new_rotation, 2).owed = At(old_rotation, 1).owed + 1

(* C6: an award with chosen_index < next index adds 1 to the owed of every *)
(* entry that stood after the next index, and leaves the owed of the entry *)
(* at the next index as it was.                                            *)
C6_BackwardSkip ==
    (Awarded /\ chosen_index < orig_next) =>
        /\ \A k \in Indexes(old_rotation) :
               k > orig_next =>
                   OwedOf(new_rotation, At(old_rotation, k).discord_id)
                       = At(old_rotation, k).owed + 1
        /\ OwedOf(new_rotation, At(old_rotation, orig_next).discord_id)
               = At(old_rotation, orig_next).owed

C6_Witness ==
    /\ Awarded
    /\ chosen_index < orig_next
    /\ orig_next + 1 < Len(old_rotation)
    /\ At(new_rotation, 2).owed = At(old_rotation, 2).owed + 1

(* C7: the awarded entry's owed after the award is its owed before minus 1 *)
(* when that was above 0, and 0 when it was 0.                             *)
C7_OwedDecrement ==
    Awarded =>
        LET before == At(old_rotation, chosen_index)
            expected == IF before.owed > 0 THEN before.owed - 1 ELSE 0
        IN  /\ lastOp.ret[1].owed = expected
            /\ lastOp.ret[1].discord_id = before.discord_id
            /\ OwedOf(new_rotation, before.discord_id) = expected

C7_Witness ==
    /\ Awarded
    /\ At(old_rotation, chosen_index).owed = 2
    /\ lastOp.ret[1].owed = 1

(* C8: when an award goes to another participant than the designated one,  *)
(* the participant designated before the award is the one designated after *)
(* it.                                                                     *)
C8_NextNotDisplaced ==
    (Awarded /\ chosen_index # orig_next) =>
        At(new_rotation, get_next_index(data)).discord_id
            = At(old_rotation, orig_next).discord_id

(* C9: after an award the rotation has the length it had and the entries   *)
(* it had; the awarded entry stands at the next index when chosen_index    *)
(* >= next index and at next index - 1 when chosen_index < next index; the *)
(* other entries keep their relative order.                                *)
C9_Position ==
    LET position == IF chosen_index >= orig_next THEN orig_next ELSE orig_next - 1
    IN  Awarded =>
            /\ Len(new_rotation) = Len(old_rotation)
            /\ At(new_rotation, position) = lastOp.ret[1]
            /\ At(new_rotation, position).discord_id
                   = At(old_rotation, chosen_index).discord_id
            /\ Ids(Pop(new_rotation, position)) = Ids(Pop(old_rotation, chosen_index))

\* [A, B, C] all owed 0, award index 2: [C, A(owed 1), B(owed 1)]
C9_Witness ==
    /\ Awarded
    /\ Len(old_rotation) = 3
    /\ \A k \in Indexes(old_rotation) : At(old_rotation, k).owed = 0
    /\ chosen_index = 2
    /\ Ids(new_rotation) = <<At(old_rotation, 2).discord_id,
                             At(old_rotation, 0).discord_id,
                             At(old_rotation, 1).discord_id>>
    /\ At(new_rotation, 0).owed = 0
    /\ At(new_rotation, 1).owed = 1
    /\ At(new_rotation, 2).owed = 1

(* C10: every discord id stands in at most one of rotation, inactive and   *)
(* past_members, and at most once in it.                                   *)
C10_PartitionDisjoint ==
    LET all == Ids(data.rotation) \o Ids(data.inactive) \o Ids(data.past_members)
    IN  \A i \in 1..Len(all), j \in 1..Len(all) : all[i] = all[j] => i = j

\* the discord ids of the three lists of a record
AllIds(d) ==
    {d.rotation[k].discord_id : k \in 1..Len(d.rotation)}
        \cup {d.inactive[k].discord_id : k \in 1..Len(d.inactive)}
        \cup {d.past_members[k].discord_id : k \in 1..Len(d.past_members)}

(* C11: /add_player for a discord id that stands in rotation, inactive or  *)
(* past_members replies that the player already exists and leaves the      *)
(* record as it was.                                                       *)
C11_AddRejectsExisting ==
    (lastOp.op = "add_player" /\ lastOp.key \in AllIds(prev)) =>
        /\ lastOp.reply = "already"
        /\ data = prev

(* C12: no handler run deletes an entry: every discord id of rotation,     *)
(* inactive and past_members before the run is in one of them after it.    *)
C12_NeverDeleted ==
    AllIds(prev) \subseteq AllIds(data)

\* list a is list b or the beginning of it
IsPrefix(a, b) == Len(a) <= Len(b) /\ SubSeq(b, 1, Len(a)) = a

(* C13: past_members is append-only: across every handler run the list as  *)
(* it was loaded is a prefix of the list as it is saved, so no entry       *)
(* leaves it, moves in it or is modified.                                  *)
C13_RetiredAppendOnly ==
    IsPrefix(prev.past_members, data.past_members)

\* /remove_player of a second player: the first past member stays first
C13_Witness ==
    /\ lastOp.op = "remove_player"
    /\ lastOp.reply = "moved"
    /\ Len(prev.past_members) = 1
    /\ Len(data.past_members) = 2
    /\ data.past_members[1] = prev.past_members[1]
    /\ data.past_members[2].discord_id = lastOp.key

(* C14: the load-compute-save sections of concurrently dispatched handlers *)
(* never interleave: no task is suspended between its load_data and its    *)
(* save_data while another one runs, and DATA_FILE holds what the handlers *)
(* leave when they are run one at a time, in the order of their saves.     *)
C14_NoLostUpdate ==
    /\ data = serial
    /\ \A t \in 1..NumTasks : tasks[t].pc # "loaded"

\* two handlers in flight at once, both past a save, the second dispatched
\* one having run first
C14_Witness ==
    /\ tasks[1].pc = "replying"
    /\ tasks[2].pc = "replying"
    /\ tasks[1].reply \in SavingReplies
    /\ tasks[2].reply \in SavingReplies
    /\ tasks[1].loaded # tasks[2].loaded
    /\ prev = tasks[1].loaded[1]
    /\ data # prev

\* the last run was a call of award_mvp
Called == lastOp.op = "award_mvp_call"

\* the three effects of an award, between the record loaded and the one saved
RosterEffect ==
    /\ Len(data.rotation) = Len(prev.rotation)
    /\ lastOp.ret # <<>>
    /\ \E k \in 1..Len(data.rotation) : data.rotation[k] = lastOp.ret[1]
    /\ lastOp.ret[1].last_mvp_type = lastOp.mvp_type

StatsEffect ==
    /\ lastOp.ret # <<>>
    /\ LET key == str(lastOp.ret[1].discord_id)
           total(stats) == IF key \in DOMAIN stats
                           THEN stats[key].events + stats[key].row + stats[key].ranking
                           ELSE 0
       IN  total(data.stats) = total(prev.stats) + 1

LogEffect == TotalAwards(data) = TotalAwards(prev) + 1

C17_IndexRange ==
    Called =>
        IF chosen_index < 0 \/ chosen_index >= Len(old_rotation)
        THEN lastOp.ret = <<>> /\ data = prev
        ELSE /\ lastOp.ret # <<>>
             /\ lastOp.ret[1].discord_id = At(old_rotation, chosen_index).discord_id

\* index -1 on a rotation of two
C17_Witness ==
    /\ Called
    /\ Len(old_rotation) = 2
    /\ chosen_index = -1
    /\ lastOp.ret = <<>>
    /\ data = prev

(* C16: when a handler run dies inside save_data, load_data afterwards     *)
(* returns the record as it was before the run or the record the run was   *)
(* saving, and never fails on an empty or partly written DATA_FILE.        *)
C16_CrashAtomic ==
    lastOp.reply = "crashed" =>
        /\ load_data(file, data) # <<>>
        /\ load_data(file, data)[1] \in {prev, data}

\* the handlers that look a discord id up, and the ids of the lists each
\* looks into
KeyOps ==
    {"award_mvp", "move_up", "move_down", "to_inactive", "from_inactive",
     "remove_player", "change_name"}

IdSet(list) == {list[k].discord_id : k \in 1..Len(list)}

SourceIds(op, d) ==
    IF op = "from_inactive" THEN IdSet(d.inactive)
    ELSE IF op \in {"remove_player", "change_name"}
    THEN IdSet(d.rotation) \cup IdSet(d.inactive)
    ELSE IdSet(d.rotation)

(* C18: an award, move up, move down, to inactive, from inactive, remove   *)
(* or change of name for a discord id that is not in the list(s) the       *)
(* handler looks into replies not-found and leaves the record as it was.   *)
C18_NotFound ==
    (lastOp.op \in KeyOps /\ lastOp.key \notin SourceIds(lastOp.op, prev)) =>
        /\ lastOp.reply = "notfound"
        /\ data = prev

\* /from_inactive for a player who is in the rotation
C18_Witness ==
    /\ lastOp.op = "from_inactive"
    /\ lastOp.key \in IdSet(prev.rotation)
    /\ lastOp.key \notin IdSet(prev.inactive)
    /\ prev.inactive # <<>>
    /\ lastOp.reply = "notfound"
    /\ data = prev

\* list b is list a with the entry at index i (0-based) taken out
TakenOut(a, i, b) ==
    /\ Len(b) = Len(a) - 1
    /\ \A k \in Indexes(b) : At(b, k) = IF k < i THEN At(a, k) ELSE At(a, k + 1)

\* list b is list a with entry x put at the end
PutLast(a, x, b) ==
    /\ Len(b) = Len(a) + 1
    /\ b[Len(b)] = x
    /\ \A k \in 1..Len(a) : b[k] = a[k]

\* everything of the record but rotation and inactive is as it was loaded
RestUnchanged ==
    /\ data.past_members = prev.past_members
    /\ data.stats = prev.stats
    /\ data.logs = prev.logs

(* C19: to_inactive takes the entry of the discord id out of rotation and  *)
(* puts it at the end of inactive, from_inactive takes it out of inactive  *)
(* and puts it at the end of rotation; the entry keeps all its fields,     *)
(* owed included, and the other entries of both lists keep their fields    *)
(* and their order.                                                        *)
C19_MoveBetweenLists ==
    /\ (lastOp.op = "to_inactive" /\ lastOp.key \in IdSet(prev.rotation)) =>
           LET i == lastOp.player_index
           IN  /\ lastOp.reply = "moved"
               /\ At(prev.rotation, i).discord_id = lastOp.key
               /\ TakenOut(prev.rotation, i, data.rotation)
               /\ PutLast(prev.inactive, At(prev.rotation, i), data.inactive)
               /\ RestUnchanged
    /\ (lastOp.op = "from_inactive" /\ lastOp.key \in IdSet(prev.inactive)) =>
           LET i == lastOp.player_index
           IN  /\ lastOp.reply = "moved"
               /\ At(prev.inactive, i).discord_id = lastOp.key
               /\ TakenOut(prev.inactive, i, data.inactive)
               /\ PutLast(prev.rotation, At(prev.inactive, i), data.rotation)
               /\ RestUnchanged

\* to_inactive of the middle one of three players, who is owed an award
C19_Witness ==
    /\ lastOp.op = "to_inactive"
    /\ lastOp.reply = "moved"
    /\ Len(prev.rotation) = 3
    /\ lastOp.player_index = 1
    /\ At(prev.rotation, 1).owed > 0
    /\ Len(data.rotation) = 2
    /\ data.inactive = <<At(prev.rotation, 1)>>

(* C20: move_up swaps the entry of the discord id with the one before it,  *)
(* move_down with the one after it, and nothing else of the record         *)
(* changes, no owed and no other position; for the entry at index 0        *)
(* (move_up) or at the last index (move_down) the record stays as it was.  *)
C20_SwapNeighbour ==
    LET i == lastOp.player_index
        j == IF lastOp.op = "move_up" THEN i - 1 ELSE i + 1
        edge == IF lastOp.op = "move_up" THEN 0 ELSE Len(prev.rotation) - 1
    IN  (lastOp.op \in {"move_up", "move_down"} /\ lastOp.key \in IdSet(prev.rotation)) =>
            /\ At(prev.rotation, i).discord_id = lastOp.key
            /\ IF i = edge
               THEN data = prev /\ lastOp.reply \in {"top", "bottom"}
               ELSE /\ lastOp.reply = "moved"
                    /\ Len(data.rotation) = Len(prev.rotation)
                    /\ At(data.rotation, j) = At(prev.rotation, i)
                    /\ At(data.rotation, i) = At(prev.rotation, j)
                    /\ \A k \in Indexes(prev.rotation) \ {i, j} :
                           At(data.rotation, k) = At(prev.rotation, k)
                    /\ data.inactive = prev.inactive
                    /\ RestUnchanged

\* move_up of the last of three players, the two swapped differing in owed
C20_Witness ==
    /\ lastOp.op = "move_up"
    /\ lastOp.reply = "moved"
    /\ Len(prev.rotation) = 3
    /\ lastOp.player_index = 2
    /\ At(prev.rotation, 2).owed # At(prev.rotation, 1).owed
    /\ At(data.rotation, 1) = At(prev.rotation, 2)
    /\ At(data.rotation, 0) = At(prev.rotation, 0)

\* list b is list a with the name of the entry at index i (0-based) set to n
Renamed(a, i, n, b) ==
    /\ Len(b) = Len(a)
    /\ \A k \in Indexes(a) :
           At(b, k) = IF k = i THEN [At(a, k) EXCEPT !.game_name = n] ELSE At(a, k)

StatsOf(stats, key) == IF key \in DOMAIN stats THEN stats[key] ELSE zero_stats

\* the counter an MVP type counts in
Counter(s, mvp_type) ==
    IF mvp_type = "EVENT" THEN s.events
    ELSE IF mvp_type = "ROW" THEN s.row
    ELSE s.ranking

(* C22: an award that goes through adds exactly 1 to the awarded player's  *)
(* counter of the MVP type and nothing to the two other counters, adds 1   *)
(* to titles when had_title and nothing otherwise, creates the player's    *)
(* stats entry from zero counters when there was none, and leaves the      *)
(* stats of every other key as they were.                                  *)
C22_StatsIncrement ==
    Awarded =>
        LET key == str(lastOp.ret[1].discord_id)
            before == StatsOf(prev.stats, key)
            after == data.stats[key]
        IN  /\ key \in DOMAIN data.stats
            /\ \A t \in MVP_TYPES :
                   Counter(after, t) = Counter(before, t)
                                           + (IF t = lastOp.mvp_type THEN 1 ELSE 0)
            /\ after.titles = before.titles + (IF lastOp.had_title THEN 1 ELSE 0)
            /\ DOMAIN data.stats = DOMAIN prev.stats \cup {key}
            /\ \A other \in DOMAIN prev.stats \ {key} :
                   data.stats[other] = prev.stats[other]

\* a first award without title to a player, another player having stats
C22_Witness ==
    /\ Awarded
    /\ ~ lastOp.had_title
    /\ str(lastOp.key) \notin DOMAIN prev.stats
    /\ DOMAIN prev.stats # {}
    /\ data.stats[str(lastOp.key)].titles = 0
    /\ Counter(data.stats[str(lastOp.key)], lastOp.mvp_type) = 1

\* the log an MVP type is logged in
LogOf(logs, mvp_type) ==
    IF mvp_type = "EVENT" THEN logs.events
    ELSE IF mvp_type = "ROW" THEN logs.row
    ELSE logs.ranking

RosterOps ==
    {"add_player", "to_inactive", "from_inactive", "remove_player", "move_up",
     "move_down", "change_name"}

(* C24: the roster handlers leave stats and logs as they were; the stats   *)
(* entry of a player is there with the same counters after the player has  *)
(* been moved to past_members.                                             *)
C24_LedgerUntouched ==
    lastOp.op \in RosterOps =>
        /\ data.stats = prev.stats
        /\ data.logs = prev.logs

\* a player with an award is removed
C24_Witness ==
    /\ lastOp.op = "remove_player"
    /\ lastOp.reply = "moved"
    /\ str(lastOp.key) \in DOMAIN prev.stats
    /\ data.past_members # <<>>
    /\ data.past_members[Len(data.past_members)].discord_id = lastOp.key
    /\ data.stats[str(lastOp.key)] = prev.stats[str(lastOp.key)]
    /\ TotalAwards(data) = 1

\* the entries of the three lists of a record
AllEntries(d) ==
    {d.rotation[k] : k \in 1..Len(d.rotation)}
        \cup {d.inactive[k] : k \in 1..Len(d.inactive)}
        \cup {d.past_members[k] : k \in 1..Len(d.past_members)}

(* C25: the owed of every entry of rotation, inactive and past_members is  *)
(* an integer that is not negative, and the entry /add_player appends has  *)
(* owed 0.                                                                 *)
C25_OwedNonNegative ==
    /\ \A entry \in AllEntries(data) : entry.owed \in Nat
    /\ (lastOp.op = "add_player" /\ lastOp.reply = "added") =>
           /\ data.rotation # <<>>
           /\ data.rotation[Len(data.rotation)].discord_id = lastOp.key
           /\ data.rotation[Len(data.rotation)].owed = 0

\* an award to a player who is owed nothing: owed stays 0
C25_Witness ==
    /\ Awarded
    /\ At(old_rotation, chosen_index).owed = 0
    /\ lastOp.ret[1].owed = 0
    /\ Len(old_rotation) >= 2

(* C26: the functions that only read leave the record as it was: /refresh  *)
(* saves nothing and hands the officer channel get_next_index of the       *)
(* record it loaded, and format_rotation_list, format_inactive_list,       *)
(* format_logs and format_stats return the record they were given.         *)
C26_ReadOnly ==
    /\ lastOp.op = "refresh" =>
           /\ data = prev
           /\ lastOp.next_index = <<get_next_index(prev)>>
    /\ format_rotation_list(data, get_next_index(data)).data = data
    /\ format_inactive_list(data).data = data
    /\ format_logs(data).data = data
    /\ format_stats(data).data = data

\* /refresh on a record with a player in each list and a log entry, the
\* retired player having no stats entry
C26_Witness ==
    /\ lastOp.op = "refresh"
    /\ data = prev
    /\ data.rotation # <<>>
    /\ data.past_members # <<>>
    /\ TotalAwards(data) = 1
    /\ str(data.past_members[1].discord_id) \notin DOMAIN data.stats
    /\ Len(format_rotation_list(data, get_next_index(data)).text) = Len(data.rotation)
    /\ format_rotation_list(data, get_next_index(data)).text[1].next

(* C27: while DATA_FILE does not exist load_data returns the empty record  *)
(* (the three lists, the three logs and the stats empty), and every        *)
(* handler run on the empty record ends with a reply: /add_player adds the *)
(* first player, /refresh renders, and the others answer not found and     *)
(* leave the record empty.                                                 *)
C27_EmptyStore ==
    /\ file = "missing" =>
           /\ load_data(file, data) = <<load_data_default>>
           /\ data.rotation = <<>> /\ data.inactive = <<>> /\ data.past_members = <<>>
           /\ \A mvp_type \in MVP_TYPES : LogOf(data.logs, mvp_type) = <<>>
           /\ DOMAIN data.stats = {}
    /\ (prev = load_data_default /\ lastOp.op # "load_data") =>
           \/ /\ lastOp.op = "add_player"
              /\ lastOp.reply = "added"
              /\ data = [prev EXCEPT !.rotation =
                            <<new_player(data.rotation[1].game_name, lastOp.key)>>]
           \/ /\ lastOp.op = "refresh"
              /\ lastOp.reply = "refreshed"
              /\ lastOp.next_index = <<-1>>
              /\ data = prev
           \/ /\ lastOp.op \notin {"add_player", "refresh"}
              /\ lastOp.reply = "notfound"
              /\ data = prev

\* the first handler to run, DATA_FILE not existing, is an award
\* confirmation: it is answered not found and the file is not created
C27_Witness ==
    /\ file = "missing"
    /\ prev = load_data_default
    /\ lastOp.op = "award_mvp"
    /\ lastOp.reply = "notfound"
    /\ data = load_data_default

\* the sum over the stats keys of the counter of an MVP type, and of titles
RECURSIVE SumCounter(_, _, _)
SumCounter(stats, keys, mvp_type) ==
    IF keys = {} THEN 0
    ELSE LET key == CHOOSE k \in keys : TRUE
         IN  Counter(stats[key], mvp_type) + SumCounter(stats, keys \ {key}, mvp_type)

RECURSIVE SumTitles(_, _)
SumTitles(stats, keys) ==
    IF keys = {} THEN 0
    ELSE LET key == CHOOSE k \in keys : TRUE
         IN  stats[key].titles + SumTitles(stats, keys \ {key})

\* the number of entries of a log with had_title
WithTitle(log) == Cardinality({k \in 1..Len(log) : log[k].had_title})

(* C28: in every state the handlers reach from the empty record, each of   *)
(* the three logs is as long as the sum over all stats keys of the counter *)
(* of its MVP type, and the log entries with had_title are as many as the  *)
(* sum of the titles counters.                                             *)
C28_LogsMatchStats ==
    /\ \A mvp_type \in MVP_TYPES :
           Len(LogOf(data.logs, mvp_type))
               = SumCounter(data.stats, DOMAIN data.stats, mvp_type)
    /\ WithTitle(data.logs.events) + WithTitle(data.logs.row)
           + WithTitle(data.logs.ranking)
               = SumTitles(data.stats, DOMAIN data.stats)

\* three awards to two players, two of one MVP type, one of them with title
C28_Witness ==
    /\ TotalAwards(data) = 3
    /\ Cardinality(DOMAIN data.stats) = 2
    /\ Len(data.logs.row) = 2
    /\ SumCounter(data.stats, DOMAIN data.stats, "ROW") = 2
    /\ \E key \in DOMAIN data.stats : data.stats[key].row = 1 /\ data.stats[key].titles = 1
    /\ SumTitles(data.stats, DOMAIN data.stats) = 2

\* the button callback of the prompt views[v] runs in this step
Pressed(v) ==
    /\ Len(views') = Len(views)
    /\ views'[v].presses = views[v].presses + 1

(* C29: a button of an award prompt awards the player whose discord id the *)
(* prompt was sent for, at the index that player has in the rotation       *)
(* loaded by the button callback, whatever the index was when the prompt   *)
(* was sent; when the player is not in that rotation the callback answers  *)
(* not found and changes neither the record nor DATA_FILE.                 *)
C29_AwardBySelectedKey ==
    [][\A v \in 1..Len(views) :
          Pressed(v) =>
              LET view == views[v]
                  here == {i \in Indexes(data.rotation) :
                              At(data.rotation, i).discord_id = view.player_id}
              IN  /\ lastOp'.key = view.player_id
                  /\ lastOp'.mvp_type = view.mvp_type
                  /\ here = {} =>
                         /\ lastOp'.reply = "notfound"
                         /\ data' = data
                         /\ file' = file
                  /\ here # {} =>
                         /\ lastOp'.reply = "awarded"
                         /\ lastOp'.player_index \in here
                         /\ \A i \in here : lastOp'.player_index <= i
                         /\ lastOp'.ret[1].discord_id = view.player_id
                         /\ \E date_str \in Dates :
                                data' = award_mvp(data, lastOp'.player_index,
                                                  view.mvp_type, lastOp'.had_title,
                                                  date_str).data
    ]_vars

\* a prompt sent for the player at index 0 has awarded that player at index 1
C29_Witness ==
    \E v \in 1..Len(views) :
        /\ lastOp.op = "award_mvp"
        /\ lastOp.reply = "awarded"
        /\ lastOp.key = views[v].player_id
        /\ views[v].presses = 1
        /\ views[v].awards = 1
        /\ views[v].player_index = 0
        /\ lastOp.player_index = 1
        /\ At(prev.rotation, 1).discord_id = views[v].player_id

(* C30: original statement, one award prompt results in at most one award, *)
(* however often and in whatever order its buttons are pressed.            *)
C30_AtMostOneAward ==
    \A v \in 1..Len(views) : views[v].awards <= 1

(* C31: original statement, once every dispatched handler has finished,    *)
(* the officer channel's rotation message shows the rotation and the next  *)
(* player of the record in DATA_FILE.                                      *)
C31_ShowsLastSaved ==
    (/\ \A t \in 1..NumTasks : tasks[t].pc = "done"
     /\ message # <<>>)
        => message[1].rotation_text
               = format_rotation_list(data, get_next_index(data)).text

============================================================================
